---- MODULE Spec2Model ----
(***************************************************************************)
(* OpSign, the document notary contract (contract/src/OpSign.ts, kept as   *)
(* src/unnamed/part_009): the storage maps, the two counters, the event    *)
(* channel, the two write methods and the three read methods, run one     *)
(* transaction at a time by the host (Spec); the test suite's simulator,   *)
(* driven side by side with the contract (SpecMirror); and the frontend's  *)
(* local document list in localStorage with the tabs that use it           *)
(* (SpecStore).                                                            *)
(*                                                                         *)
(* Scaling.  Hashes, addresses and counters are 256-bit unsigned values in *)
(* the contract.  The model keeps them unsigned and fixed-width but scales *)
(* the ranges: two hashes (the zero value and a non-zero one), addresses   *)
(* 0..MaxAddr, and a counter that holds 0..MaxCount, so that SafeMath's    *)
(* overflow Revert is reachable.  Zero is a member of every range, as it   *)
(* is of the 256-bit space.                                                *)
(***************************************************************************)
EXTENDS Integers, Sequences, FiniteSets, TLC

\* ---- bounds of the model ------------------------------------------------
MaxAddr == 2
MaxCount == 2
MaxBlock == 2

Hashes == {0, 1}
Addresses == 0..MaxAddr

\* ---- revert reasons and method names -------------------------------------
OK == "ok"
AlreadyRegistered == "Document already registered"
NotFound == "Document not found"
NotOriginalOwner == "Not the document signer"
AlreadyRevoked == "Document already revoked"
Overflow == "SafeMath: addition overflow"

SignOp == "_signDocument"
RevokeOp == "_revokeDocument"
DeployOp == "onDeployment"
VerifyOp == "_verifyDocument"
GetDocCountOp == "_getDocCount"
GetSignerDocCountOp == "_getSignerDocCount"

VARIABLES
    docSigner,       \* hash -> signer address as u256 (0 = never written)
    docBlock,        \* hash -> block number at signing
    docRevoked,      \* hash -> 0 (active) or 1 (revoked)
    totalDocCount,   \* platform-wide counter
    signerDocCount,  \* address -> number of documents signed
    events,          \* the events emitted so far, in order
    blockNumber,     \* Blockchain.block.number, the height of the current block
    lastCall,        \* the latest transaction: the method called and its outcome
    sim,             \* the OpSignSimulator instance driven with the same calls
    localStorage,    \* the browser's localStorage of the frontend's origin
    walletAddress,   \* the address of the connected wallet, NoWallet if none
    docs,            \* MyDocumentsTab's docs state: the list it renders
    addedUnder,      \* history: <<wallet, hash>> for each document added
    tab,             \* App's tab state: the tab that is mounted
    signTab,         \* SignTab's React state
    hashJobs,        \* SignTab: files whose hashDocumentToU256 is running
    signCall,        \* SignTab: the handleSign invocation that is running
    pollEffect,      \* SignTab: the closure of the confirmation-poll effect
    pollsInFlight,   \* SignTab: getTransaction requests not yet answered
    submitted,       \* transaction ids the node has accepted
    txHash,          \* history: the hash each accepted transaction registers
    mined,           \* transaction ids that are in a block
    verifyTab,       \* VerifyTab's React state
    verifyRuns,      \* VerifyTab: the processAndVerify invocations running
    lastVerify,      \* history: what the latest finished invocation met
    network,         \* the network the wallet reports
    onChain,         \* MyDocumentsTab: hash -> on-chain status of the card
    fetches,         \* MyDocumentsTab: hashes whose _verifyDocument is unanswered
    revoking,        \* MyDocumentsTab: the hash handleRevoke is working on
    pendingRevoke,   \* MyDocumentsTab: the revocation waiting for confirmation
    revokeError,     \* MyDocumentsTab: hash -> message of the last failed revoke
    revokeCall,      \* MyDocumentsTab: the handleRevoke invocation that is running
    revokeEffect,    \* MyDocumentsTab: the closure of the revoke-poll effect
    revokePolls      \* MyDocumentsTab: getTransaction requests not yet answered

storage == <<docSigner, docBlock, docRevoked, totalDocCount, signerDocCount>>
contractVars == <<docSigner, docBlock, docRevoked, totalDocCount,
                  signerDocCount, events, blockNumber, lastCall, sim>>
storeVars == <<localStorage, walletAddress, docs, addedUnder>>
signVars == <<tab, signTab, hashJobs, signCall, pollEffect, pollsInFlight,
              submitted, txHash, mined>>
verifyVars == <<verifyTab, verifyRuns, lastVerify>>
docsVars == <<network, onChain, fetches, revoking, pendingRevoke, revokeError,
              revokeCall, revokeEffect, revokePolls>>
tabVars == <<signVars, verifyVars, docsVars>>
frontendVars == <<storeVars, tabVars>>
vars == <<contractVars, frontendVars>>

\* The contract's persistent state and event channel as one value, the unit
\* the host commits or discards per transaction.
State ==
    [docSigner |-> docSigner, docBlock |-> docBlock, docRevoked |-> docRevoked,
     totalDocCount |-> totalDocCount, signerDocCount |-> signerDocCount,
     events |-> events]

\* ---- helpers --------------------------------------------------------------
\* u256.isZero
IsZero(x) == x = 0

\* addressToU256: the big-endian value of the address bytes.  The model names
\* an address by that value.
AddressToU256(addr) == addr

\* Faulty variant: the addition is not checked.
NeverOverflows(a, b) == FALSE

\* SafeMath.add reverts instead of wrapping.
AddOverflows(a, b) == a + b > MaxCount

DocumentSignedEvent(hash, signer, height) ==
    [type |-> "DocumentSigned", hash |-> hash, signer |-> signer,
     blockHeight |-> height]

DocumentRevokedEvent(hash, signer) ==
    [type |-> "DocumentRevoked", hash |-> hash, signer |-> signer]

\* A method that returns: the host commits every write it issued.
Return(after) == [state |-> after, reason |-> OK]

\* Faulty variant: a Revert that leaves the writes issued so far in place.
RevertKeepsWrites(before, partial, reason) == [state |-> partial, reason |-> reason]

\* throw new Revert(reason): the host aborts the transaction and discards the
\* writes issued so far (partial), leaving the state as it was (before).
Revert(before, partial, reason) == [state |-> before, reason |-> reason]

\* ---- _signDocument ---------------------------------------------------------
\* Faulty variant: the duplicate check never fires.
NeverRegistered(existing) == FALSE

\* if (!existing.isZero()) throw new Revert('Document already registered')
IsRegistered(existing) == ~IsZero(existing)

\* Faulty variant: the record is stored under every key.
PersistUnderEveryKey(s, hash, signerU256, height) ==
    [s EXCEPT !.docSigner = [k \in Hashes |-> signerU256],
              !.docBlock = [k \in Hashes |-> height],
              !.docRevoked = [k \in Hashes |-> 0]]

\* Faulty variant: the zero hash is taken for "no document" and not stored.
PersistUnlessZeroHash(s, hash, signerU256, height) ==
    IF IsZero(hash)
    THEN s
    ELSE [s EXCEPT !.docSigner[hash] = signerU256,
                   !.docBlock[hash] = height,
                   !.docRevoked[hash] = 0]

\* docSigner.set / docBlock.set / docRevoked.set of the new record
PersistRecord(s, hash, signerU256, height) ==
    [s EXCEPT !.docSigner[hash] = signerU256,
              !.docBlock[hash] = height,
              !.docRevoked[hash] = 0]

\* Faulty variant: the new count is written to every signer's slot.
SetEverySignerCount(s, signer, count) ==
    [s EXCEPT !.signerDocCount = [a \in Addresses |-> count]]

\* Faulty variant: the per-signer counter is not written.
SkipSignerCount(s, signer, count) == s

\* signerDocCount.set(signer, count)
SetSignerCount(s, signer, count) == [s EXCEPT !.signerDocCount[signer] = count]

\* Faulty variant: the event is not emitted.
DropEvent(s, event) == s

\* emitEvent
EmitEvent(s, event) == [s EXCEPT !.events = Append(@, event)]

SignDocument(s, hash, sender, height) ==
    LET signerU256 == AddressToU256(sender)
        existing == s.docSigner[hash]
    IN  IF IsRegistered(existing)
        THEN Revert(s, s, AlreadyRegistered)
        ELSE
        LET s1 == PersistRecord(s, hash, signerU256, height)
        IN  IF AddOverflows(s1.totalDocCount, 1)
            THEN Revert(s, s1, Overflow)
            ELSE
            LET s2 == [s1 EXCEPT !.totalDocCount = @ + 1]
                prevCount == s2.signerDocCount[sender]
            IN  IF AddOverflows(prevCount, 1)
                THEN Revert(s, s2, Overflow)
                ELSE
                LET s3 == SetSignerCount(s2, sender, prevCount + 1)
                    s4 == EmitEvent(s3, DocumentSignedEvent(hash, signerU256, height))
                IN  Return(s4)

\* ---- _revokeDocument -------------------------------------------------------
\* Faulty variant: the not-found check never fires.
NeverUnregistered(storedSigner) == FALSE

\* if (storedSigner.isZero()) throw new Revert('Document not found')
IsUnregistered(storedSigner) == IsZero(storedSigner)

\* Faulty variant: the signer check never fires.
AnyoneIsSigner(storedSigner, callerU256) == FALSE

\* if (storedSigner != callerU256) throw new Revert('Not the document signer')
IsNotSigner(storedSigner, callerU256) == storedSigner # callerU256

\* Faulty variant: the already-revoked check never fires.
NeverRevoked(revoked) == FALSE

\* if (!revoked.isZero()) throw new Revert('Document already revoked')
IsRevoked(revoked) == ~IsZero(revoked)

\* Faulty variant: revoking also takes the document out of the platform-wide count.
MarkRevokedAndUncount(s, hash) ==
    [s EXCEPT !.docRevoked[hash] = 1,
              !.totalDocCount = IF @ > 0 THEN @ - 1 ELSE @]

\* Faulty variant: the revocation also forgets the registration height.
MarkRevokedAndClearBlock(s, hash) ==
    [s EXCEPT !.docRevoked[hash] = 1, !.docBlock[hash] = 0]

\* docRevoked.set(hash, u256.One)
MarkRevoked(s, hash) == [s EXCEPT !.docRevoked[hash] = 1]

\* Faulty variant: the revoked flag is tested before the caller.
RevokeDocumentRevokedFirst(s, hash, caller) ==
    LET callerU256 == AddressToU256(caller)
        storedSigner == s.docSigner[hash]
    IN  IF IsUnregistered(storedSigner)
        THEN Revert(s, s, NotFound)
        ELSE IF IsRevoked(s.docRevoked[hash])
        THEN Revert(s, s, AlreadyRevoked)
        ELSE IF IsNotSigner(storedSigner, callerU256)
        THEN Revert(s, s, NotOriginalOwner)
        ELSE
        LET s1 == MarkRevoked(s, hash)
            s2 == EmitEvent(s1, DocumentRevokedEvent(hash, callerU256))
        IN  Return(s2)

RevokeDocument(s, hash, caller) ==
    LET callerU256 == AddressToU256(caller)
        storedSigner == s.docSigner[hash]
    IN  IF IsUnregistered(storedSigner)
        THEN Revert(s, s, NotFound)
        ELSE IF IsNotSigner(storedSigner, callerU256)
        THEN Revert(s, s, NotOriginalOwner)
        ELSE IF IsRevoked(s.docRevoked[hash])
        THEN Revert(s, s, AlreadyRevoked)
        ELSE
        LET s1 == MarkRevoked(s, hash)
            s2 == EmitEvent(s1, DocumentRevokedEvent(hash, callerU256))
        IN  Return(s2)

\* ---- _verifyDocument / _getDocCount / _getSignerDocCount -------------------
VerifyDocument(s, hash) ==
    LET signerU256 == s.docSigner[hash]
        exists == ~IsZero(signerU256)
    IN  [exists |-> exists,
         signer |-> signerU256,
         blockHeight |-> s.docBlock[hash],
         revoked |-> exists /\ ~IsZero(s.docRevoked[hash])]

GetDocCount(s) == s.totalDocCount

GetSignerDocCount(s, signer) == s.signerDocCount[signer]

\* Faulty variant: the lookup leaves a trace in the event channel.
VerifyDocumentCallLogs(s, hash) ==
    [state |-> EmitEvent(s, [type |-> "DocumentVerified", hash |-> hash]),
     reason |-> OK, value |-> VerifyDocument(s, hash)]

\* The three read methods as calls: they fill a BytesWriter and return it,
\* issuing no storage write and no event.
VerifyDocumentCall(s, hash) ==
    [state |-> s, reason |-> OK, value |-> VerifyDocument(s, hash)]

GetDocCountCall(s) ==
    [state |-> s, reason |-> OK, value |-> GetDocCount(s)]

GetSignerDocCountCall(s, signer) ==
    [state |-> s, reason |-> OK, value |-> GetSignerDocCount(s, signer)]

\* ---- the simulator of the test suite ----------------------------------------
\* Reasons thrown by the simulator where its text is not the contract's.
SimNotOriginalSigner == "Not the original signer"
SimAlreadyRevoked == "Already revoked"

\* A JavaScript Map is a function whose domain is the set of keys present.
EmptyMap == [k \in {} |-> 0]

MapHas(m, k) == k \in DOMAIN m

MapSet(m, k, v) == [x \in DOMAIN m \cup {k} |-> IF x = k THEN v ELSE m[x]]

\* this.signerDocCount.get(signer) ?? 0n
MapGetOrZero(m, k) == IF MapHas(m, k) THEN m[k] ELSE 0

\* new OpSignSimulator()
NewSimulator ==
    [docSigner |-> EmptyMap, docBlock |-> EmptyMap, docRevoked |-> EmptyMap,
     signerDocCount |-> EmptyMap, totalDocCount |-> 0]

\* OpSignSimulator.signDocument, with currentBlock set to the given height
SimSignDocument(m, hash, signer, currentBlock) ==
    IF MapHas(m.docSigner, hash)
    THEN [state |-> m, reason |-> AlreadyRegistered]
    ELSE [state |->
             [docSigner |-> MapSet(m.docSigner, hash, signer),
              docBlock |-> MapSet(m.docBlock, hash, currentBlock),
              docRevoked |-> MapSet(m.docRevoked, hash, FALSE),
              signerDocCount |->
                  MapSet(m.signerDocCount, signer,
                         MapGetOrZero(m.signerDocCount, signer) + 1),
              totalDocCount |-> m.totalDocCount + 1],
          reason |-> OK]

\* OpSignSimulator.revokeDocument
SimRevokeDocument(m, hash, caller) ==
    IF ~MapHas(m.docSigner, hash)
    THEN [state |-> m, reason |-> NotFound]
    ELSE IF m.docSigner[hash] # caller
    THEN [state |-> m, reason |-> SimNotOriginalSigner]
    ELSE IF m.docRevoked[hash] = TRUE
    THEN [state |-> m, reason |-> SimAlreadyRevoked]
    ELSE [state |-> [m EXCEPT !.docRevoked = MapSet(@, hash, TRUE)],
          reason |-> OK]

\* OpSignSimulator.verifyDocument
SimVerifyDocument(m, hash) ==
    IF ~MapHas(m.docSigner, hash)
    THEN [exists |-> FALSE, signer |-> 0, blockHeight |-> 0, revoked |-> FALSE]
    ELSE [exists |-> TRUE, signer |-> m.docSigner[hash],
          blockHeight |-> m.docBlock[hash], revoked |-> m.docRevoked[hash]]

\* OpSignSimulator.getDocCount
SimGetDocCount(m) == m.totalDocCount

\* OpSignSimulator.getSignerDocCount
SimGetSignerDocCount(m, signer) == MapGetOrZero(m.signerDocCount, signer)

\* ---- the frontend's document store ------------------------------------------
\* Wallet addresses as the wallet reports them: one wallet in two spellings
\* that differ in letter case, and another wallet.
Wallets == {"bc1qalice", "BC1QALICE", "bc1qbob"}

\* walletAddress is null while no wallet is connected.
NoWallet == "null"

\* String.prototype.toLowerCase on a wallet address
ToLowerCase(w) == IF w = "BC1QALICE" THEN "bc1qalice" ELSE w

\* The SHA-256 digests of the documents as u256 values.  Hash texts are
\* written with two hex digits where the program writes 64.
Digests == {170, 11}

\* formatHashHex: '0x' + hash.toString(16).padStart(64, '0')
formatHashHex(hash) == IF hash = 170 THEN "0xaa" ELSE "0x0b"

\* The hash text the store's actions add on a signature: the document whose
\* digest begins with a zero digit, as formatHashHex writes it.
DocHashes == {formatHashHex(d) : d \in Digests \ {170}}

\* The texts "Add by hash" accepts after trimming, lower-casing and prefixing
\* (/^0x[0-9a-f]{1,64}$/): the full-width text and the same number without
\* its leading zero.
ManualInputs == DocHashes \cup {"0xb"}

\* BigInt(text) of a hash text
BigInt(text) == IF text = "0xaa" THEN 170 ELSE 11

\* const KEY = 'opsign:documents:v1' (LEGACY_KEY in the wallet-scoped store)
KEY == <<"opsign:documents:v1">>

LEGACY_KEY == KEY

\* `opsign:documents:v2:${walletAddress.toLowerCase()}`
walletKey(w) == <<"opsign:documents:v2:", ToLowerCase(w)>>

\* The entry SignTab stores once the transaction is confirmed (signedAt, a
\* timestamp, is left out).
SignedDocument(hash) == [hash |-> hash, filename |-> "file.pdf", txId |-> "txid"]

\* The entry "Add by hash" stores.
ManualDocument(hash) == [hash |-> hash, filename |-> "Manual entry", txId |-> ""]

\* localStorage.setItem / removeItem
SetItem(ls, key, value) == MapSet(ls, key, value)

RemoveItem(ls, key) == [k \in DOMAIN ls \ {key} |-> ls[k]]

\* JSON.parse(localStorage.getItem(key) ?? '[]')
ParseItem(ls, key) == IF MapHas(ls, key) THEN ls[key] ELSE <<>>

\* docs.some(d => d.hash === hash)
SomeHash(list, hash) == \E i \in DOMAIN list : list[i].hash = hash

\* docs.filter(d => d.hash !== hash)
WithoutHash(list, hash) == SelectSeq(list, LAMBDA d : d.hash # hash)

\* The store keyed by the one global key: getStoredDocuments()
GetStoredDocumentsGlobal(ls) == ParseItem(ls, KEY)

\* Faulty variant: the document is stored without looking for its hash.
AddStoredDocumentGlobalAlways(ls, doc) ==
    SetItem(ls, KEY, <<doc>> \o GetStoredDocumentsGlobal(ls))

\* addStoredDocument(doc) of the global-key store
AddStoredDocumentGlobal(ls, doc) ==
    LET list == GetStoredDocumentsGlobal(ls)
    IN  IF SomeHash(list, doc.hash)
        THEN ls
        ELSE SetItem(ls, KEY, <<doc>> \o list)

\* removeStoredDocument(hash) of the global-key store
RemoveStoredDocumentGlobal(ls, hash) ==
    SetItem(ls, KEY, WithoutHash(GetStoredDocumentsGlobal(ls), hash))

\* Faulty variant: the wallet's own entries are put before the legacy ones.
migrateLegacyExistingFirst(ls, w) ==
    IF ~MapHas(ls, LEGACY_KEY)
    THEN ls
    ELSE LET legacy == ls[LEGACY_KEY]
             existing == ParseItem(ls, walletKey(w))
             merged == existing \o
                           SelectSeq(legacy, LAMBDA d : ~SomeHash(existing, d.hash))
         IN  IF Len(legacy) = 0
             THEN RemoveItem(ls, LEGACY_KEY)
             ELSE RemoveItem(SetItem(ls, walletKey(w), merged), LEGACY_KEY)

\* migrateLegacy(walletAddress) of the wallet-scoped store
migrateLegacy(ls, w) ==
    IF ~MapHas(ls, LEGACY_KEY)
    THEN ls
    ELSE LET legacy == ls[LEGACY_KEY]
             existing == ParseItem(ls, walletKey(w))
             merged == SelectSeq(legacy, LAMBDA d : ~SomeHash(existing, d.hash))
                           \o existing
         IN  IF Len(legacy) = 0
             THEN RemoveItem(ls, LEGACY_KEY)
             ELSE RemoveItem(SetItem(ls, walletKey(w), merged), LEGACY_KEY)

\* getStoredDocuments(walletAddress): the storage it leaves and the list it
\* returns
GetStoredDocuments(ls, w) ==
    LET migrated == migrateLegacy(ls, w)
    IN  [storage |-> migrated, list |-> ParseItem(migrated, walletKey(w))]

\* addStoredDocument(walletAddress, doc)
AddStoredDocument(ls, w, doc) ==
    LET got == GetStoredDocuments(ls, w)
    IN  IF SomeHash(got.list, doc.hash)
        THEN got.storage
        ELSE SetItem(got.storage, walletKey(w), <<doc>> \o got.list)

\* removeStoredDocument(walletAddress, hash)
RemoveStoredDocument(ls, w, hash) ==
    LET got == GetStoredDocuments(ls, w)
    IN  SetItem(got.storage, walletKey(w), WithoutHash(got.list, hash))

\* ---- the frontend's Sign tab -------------------------------------------------
\* The tabs of the app; only the tab shown is mounted.
Tabs == {"sign", "verify", "mydocs", "stats"}

\* The files the user can pick, by name.
Files == {"a.pdf", "b.pdf"}

NoFile == "null"

\* hashDocumentToU256: the SHA-256 digest of the file as a BigInt
hashDocumentToU256(f) == IF f = "a.pdf" THEN 170 ELSE 11

\* formatHashHex(await hashDocumentToU256(f))
HashHexOf(f) == formatHashHex(hashDocumentToU256(f))

\* The transaction ids the node hands out.
TxIds == {"tx1", "tx2"}

\* The most getTransaction requests of one effect that are unanswered at once.
MaxPolls == 2

ErrHash == "Failed to compute file hash."
ErrSign == "Transaction failed"

\* useState initial values of SignTab
SignTabInitial ==
    [file |-> NoFile, hashHex |-> "", signing |-> FALSE,
     pendingTxId |-> "", txId |-> "", error |-> ""]

\* No handleSign is running.
NoSignCall == [running |-> FALSE, hashHex |-> "", mounted |-> FALSE]

\* No poll effect has run yet, or its cleanup has run.
NoEffect ==
    [txId |-> "", file |-> NoFile, hashHex |-> "", cancelled |-> TRUE,
     timeout |-> FALSE]

\* Faulty variant: a pending transaction does not disable the button.
SignDisabledUnlessPending(st) == st.hashHex = "" \/ st.signing

\* disabled={!hash || signing || !provider || !!pendingTxId} of the Sign
\* Document button; the provider exists while a network is connected.
SignDisabled(st) == st.hashHex = "" \/ st.signing \/ st.pendingTxId # ""

\* The effect closure is the one of the current pendingTxId: React has run
\* the effects of the latest render.
EffectInSync ==
    IF signTab.pendingTxId = ""
    THEN pollEffect.cancelled
    ELSE ~pollEffect.cancelled /\ pollEffect.txId = signTab.pendingTxId

\* confirm(id) inside the poll effect: the storage and the SignTab state it
\* leaves. file and hashHex are the values the effect closure captured.
Confirm(ls, st, e) ==
    [storage |->
         IF e.hashHex # "" /\ e.file # NoFile
         THEN AddStoredDocumentGlobal(ls,
                  [hash |-> e.hashHex, filename |-> e.file, txId |-> e.txId])
         ELSE ls,
     state |-> [st EXCEPT !.pendingTxId = "", !.txId = e.txId]]

\* ---- the frontend's Verify tab -----------------------------------------------
\* The most processAndVerify invocations running at once.
MaxRuns == 2

ErrNoContract == "Contract not available. Check network connection."
ErrQuery == "Query failed: revert"
ErrVerify == "Verification failed"

\* The record slot of a state that is not 'verified'.
NoRecord == [signer |-> 0, blockHeight |-> 0, revoked |-> FALSE]

\* The VerifyState union: status, with message for 'error' and record for
\* 'verified'.
VerifyState(status, message, record) ==
    [status |-> status, message |-> message, record |-> record]

\* useState initial values of VerifyTab
VerifyTabInitial ==
    [file |-> NoFile, hashHex |-> "", state |-> VerifyState("idle", "", NoRecord)]

\* const record: DocumentRecord = { signer, blockHeight, revoked } built from
\* the properties of a _verifyDocument answer
DocumentRecordOf(props) ==
    [signer |-> props.signer, blockHeight |-> props.blockHeight,
     revoked |-> props.revoked]

\* Faulty variant: a revoked record counts as not found.
isDocumentFoundAndActive(record) == record.signer # 0 /\ ~record.revoked

\* isDocumentFound: record.signer !== 0n
isDocumentFound(record) == record.signer # 0

\* What contract._verifyDocument can answer: a decoded result with any
\* properties, a result carrying a revert, or a rejected promise.
VerifyResponses ==
    [kind : {"properties"}, exists : BOOLEAN, signer : {0, 1},
     blockHeight : {0, 1}, revoked : BOOLEAN]
        \cup {[kind |-> k, exists |-> FALSE, signer |-> 0, blockHeight |-> 0,
                revoked |-> FALSE] : k \in {"revert", "throw"}}

\* Faulty variant: absence is read from the signer value, not from exists.
VerifyResultBySigner(response) ==
    IF response.kind = "throw"
    THEN VerifyState("error", ErrVerify, NoRecord)
    ELSE IF response.kind = "revert"
    THEN VerifyState("error", ErrQuery, NoRecord)
    ELSE IF response.signer = 0
    THEN VerifyState("not-found", "", NoRecord)
    ELSE VerifyState("verified", "",
             [signer |-> response.signer, blockHeight |-> response.blockHeight,
              revoked |-> response.revoked])

\* processAndVerify from the answer of _verifyDocument on: the state it sets.
VerifyResult(response) ==
    IF response.kind = "throw"
    THEN VerifyState("error", ErrVerify, NoRecord)
    ELSE IF response.kind = "revert"
    THEN VerifyState("error", ErrQuery, NoRecord)
    ELSE IF ~response.exists
    THEN VerifyState("not-found", "", NoRecord)
    ELSE VerifyState("verified", "",
             [signer |-> response.signer, blockHeight |-> response.blockHeight,
              revoked |-> response.revoked])

\* What the render shows for a state: the ACTIVE card, the REVOKED card, the
\* not-found card, the error alert.
ShowsActive(st) == st.status = "verified" /\ ~st.record.revoked
ShowsRevoked(st) == st.status = "verified" /\ st.record.revoked
ShowsNotFound(st) == st.status = "not-found"
ShowsError(st) == st.status = "error"

\* Nothing has been verified yet.
NoVerify == [step |-> "none", hashed |-> FALSE, contract |-> FALSE,
             file |-> NoFile,
             response |-> CHOOSE r \in VerifyResponses : r.kind = "throw"]

\* ---- the frontend's My Documents tab ----------------------------------------
\* The networks a wallet can be on: one with a deployed contract, one without.
Networks == {"testnet", "mainnet"}

\* getContractAddress('opSign', network): CONTRACT_ADDRESSES has an address
\* for testnet and the empty string for mainnet and regtest.
getContractAddress(n) ==
    IF n = "testnet" THEN "opt1sqr4hgwx39vyjdvcqqlaqpwsuz7r6qsfrwq7esucf"
                     ELSE "null"

\* useOpSignContract(network) is not null
HasContract(n) == getContractAddress(n) # "null"

\* revoking is null while no handleRevoke holds it.
NoHash == "null"

\* pendingRevoke is null
NoPendingRevoke == [hash |-> "", txId |-> ""]

\* The entry the fetch effect writes before it asks the contract.
OnChainLoading ==
    [exists |-> FALSE, blockHeight |-> 0, revoked |-> FALSE, loading |-> TRUE,
     error |-> ""]

\* The entry the fetch effect writes when the request fails.
OnChainFailed ==
    [exists |-> FALSE, blockHeight |-> 0, revoked |-> FALSE, loading |-> FALSE,
     error |-> "Failed to fetch"]

\* The entry the revoke poll writes for a mined revocation: the previous
\* values, loading again.
OnChainRefresh(oc, hash) ==
    IF MapHas(oc, hash)
    THEN [oc[hash] EXCEPT !.loading = TRUE, !.error = ""]
    ELSE OnChainLoading

\* The entry written from the properties _verifyDocument answers: every
\* document of the list is registered, and the chain revokes a document when
\* its revocation is mined.
OnChainAnswer(hash) ==
    [exists |-> TRUE, blockHeight |-> 1,
     revoked |-> \E id \in mined :
                    txHash[id] # "" /\ BigInt(txHash[id]) = BigInt(hash),
     loading |-> FALSE, error |-> ""]

\* The hashes the fetch effect asks the contract about: those of docs whose
\* entry is not loaded, when there is a contract instance.
FetchTargets(oc, list, n) ==
    IF ~HasContract(n) \/ Len(list) = 0
    THEN {}
    ELSE {list[i].hash : i \in {j \in DOMAIN list :
              ~(MapHas(oc, list[j].hash) /\ ~oc[list[j].hash].loading)}}

\* The fetch effect, run for a new docs or contract: onChain as it leaves it.
FetchEffect(oc, list, n) ==
    LET targets == FetchTargets(oc, list, n)
    IN  [h \in DOMAIN oc \cup targets |->
            IF h \in targets THEN OnChainLoading ELSE oc[h]]

\* The card shows the Revoke button, and the button is disabled.
RevokeShown(oc, pr, hash) ==
    MapHas(oc, hash) /\ oc[hash].exists /\ ~oc[hash].revoked /\ pr.hash # hash

RevokeDisabled(rv) == rv # NoHash

\* The card shows the spinner.
ShowsSpinner(oc, hash) == MapHas(oc, hash) /\ oc[hash].loading

NoRevokeCall == [running |-> FALSE, hash |-> "", network |-> ""]

NoRevokeEffect == [hash |-> "", txId |-> "", network |-> "", cancelled |-> TRUE, timeout |-> FALSE]

\* The network the tab's props carry: none while no wallet is connected.
PropsNetwork(w, n) == IF w = NoWallet THEN "null" ELSE n

\* The fetch effect runs after a render with a new docs or contract.
RunFetchEffect(oc, list, n) ==
    /\ onChain' = FetchEffect(oc, list, n)
    /\ fetches' = fetches \cup FetchTargets(oc, list, n)

\* The revoke poll effect has run for the rendered pendingRevoke and provider.
RevokeEffectInSync ==
    IF pendingRevoke = NoPendingRevoke \/ PropsNetwork(walletAddress, network) = "null"
    THEN revokeEffect.cancelled
    ELSE /\ ~revokeEffect.cancelled
         /\ revokeEffect.txId = pendingRevoke.txId
         /\ revokeEffect.network = network

RevokeFrame ==
    UNCHANGED <<revoking, pendingRevoke, revokeError, revokeCall, revokeEffect, revokePolls>>

\* ---- the host: one transaction at a time -----------------------------------
\* Storage is zero-initialised by the runtime; nothing has been emitted.
InitContract ==
    /\ docSigner = [h \in Hashes |-> 0]
    /\ docBlock = [h \in Hashes |-> 0]
    /\ docRevoked = [h \in Hashes |-> 0]
    /\ totalDocCount = 0
    /\ signerDocCount = [a \in Addresses |-> 0]
    /\ events = <<>>
    /\ blockNumber = 1
    /\ lastCall = [op |-> DeployOp, reason |-> OK]
    /\ sim = NewSimulator

\* The app as it is loaded: the Sign tab is shown, nothing is selected, no
\* request is running and the node knows no transaction of this session.
InitTabs ==
    /\ network = "testnet"
    /\ verifyTab = VerifyTabInitial
    /\ verifyRuns = {}
    /\ lastVerify = NoVerify
    /\ signTab = SignTabInitial
    /\ hashJobs = {}
    /\ signCall = NoSignCall
    /\ pollEffect = NoEffect
    /\ pollsInFlight = 0
    /\ submitted = {}
    /\ txHash = [id \in TxIds |-> ""]
    /\ mined = {}
    /\ onChain = EmptyMap
    /\ fetches = {}
    /\ revoking = NoHash
    /\ pendingRevoke = NoPendingRevoke
    /\ revokeError = EmptyMap
    /\ revokeCall = NoRevokeCall
    /\ revokeEffect = NoRevokeEffect
    /\ revokePolls = 0

Init ==
    /\ InitContract
    /\ localStorage = EmptyMap
    /\ walletAddress = NoWallet
    /\ docs = <<>>
    /\ addedUnder = {}
    /\ tab = "sign"
    /\ InitTabs

\* The host commits the state a transaction ends with and records its outcome.
Commit(op, r) ==
    /\ docSigner' = r.state.docSigner
    /\ docBlock' = r.state.docBlock
    /\ docRevoked' = r.state.docRevoked
    /\ totalDocCount' = r.state.totalDocCount
    /\ signerDocCount' = r.state.signerDocCount
    /\ events' = r.state.events
    /\ lastCall' = [op |-> op, reason |-> r.reason]
    /\ UNCHANGED blockNumber
    /\ UNCHANGED frontendVars

\* A transaction calling _signDocument(hash) from sender, in the current block.
SignTx ==
    \E hash \in Hashes, sender \in Addresses :
        /\ Commit(SignOp, SignDocument(State, hash, sender, blockNumber))
        /\ UNCHANGED sim

\* A transaction calling _revokeDocument(hash) from sender.
RevokeTx ==
    \E hash \in Hashes, sender \in Addresses :
        /\ Commit(RevokeOp, RevokeDocument(State, hash, sender))
        /\ UNCHANGED sim

\* A call of _verifyDocument(hash).
VerifyTx ==
    \E hash \in Hashes :
        Commit(VerifyOp, VerifyDocumentCall(State, hash)) /\ UNCHANGED sim

\* A call of _getDocCount().
GetDocCountTx ==
    Commit(GetDocCountOp, GetDocCountCall(State)) /\ UNCHANGED sim

\* A call of _getSignerDocCount(signer).
GetSignerDocCountTx ==
    \E signer \in Addresses :
        /\ Commit(GetSignerDocCountOp, GetSignerDocCountCall(State, signer))
        /\ UNCHANGED sim

\* The chain grows by a block: later transactions read a higher block number.
AdvanceBlock ==
    /\ blockNumber < MaxBlock
    /\ blockNumber' = blockNumber + 1
    /\ UNCHANGED <<docSigner, docBlock, docRevoked, totalDocCount,
                   signerDocCount, events, lastCall, sim>>
    /\ UNCHANGED frontendVars

Next ==
    \/ SignTx
    \/ RevokeTx
    \/ VerifyTx
    \/ GetDocCountTx
    \/ GetSignerDocCountTx
    \/ AdvanceBlock

Spec == Init /\ [][Next]_vars

\* ---- the contract and the simulator, driven side by side --------------------
\* The same signDocument call is given to the contract and to the simulator,
\* whose currentBlock is the block of the transaction.
MirrorSignTx ==
    \E hash \in Hashes, sender \in Addresses :
        /\ Commit(SignOp, SignDocument(State, hash, sender, blockNumber))
        /\ sim' = SimSignDocument(sim, hash, AddressToU256(sender), blockNumber).state

\* The same revokeDocument call is given to both.
MirrorRevokeTx ==
    \E hash \in Hashes, sender \in Addresses :
        /\ Commit(RevokeOp, RevokeDocument(State, hash, sender))
        /\ sim' = SimRevokeDocument(sim, hash, AddressToU256(sender)).state

MirrorNext ==
    \/ MirrorSignTx
    \/ MirrorRevokeTx
    \/ VerifyTx
    \/ GetDocCountTx
    \/ GetSignerDocCountTx
    \/ AdvanceBlock

SpecMirror == Init /\ [][MirrorNext]_vars

\* ---- the frontend: wallet, tabs and the document store ----------------------
\* The wallet connects, switches account or disconnects; the tab's effect on
\* walletAddress runs loadDocs.
WalletChanged ==
    \E w \in Wallets \cup {NoWallet} :
        /\ w # walletAddress
        /\ walletAddress' = w
        /\ docs' = GetStoredDocumentsGlobal(localStorage)
        /\ RunFetchEffect(onChain, docs', PropsNetwork(w, network))
        /\ UNCHANGED <<localStorage, addedUnder>>
        /\ UNCHANGED <<contractVars, signVars, verifyVars, network>>
        /\ RevokeFrame

\* My Documents is opened: the tab mounts and loadDocs runs.
LoadDocs ==
    /\ docs' = GetStoredDocumentsGlobal(localStorage)
    /\ RunFetchEffect(onChain, docs', PropsNetwork(walletAddress, network))
    /\ UNCHANGED <<localStorage, walletAddress, addedUnder>>
    /\ UNCHANGED <<contractVars, signVars, verifyVars, network>>
    /\ RevokeFrame

\* SignTab: the signing transaction of the connected wallet is confirmed and
\* the document is added to the local list.
SignConfirmed ==
    \E hash \in DocHashes :
        /\ walletAddress # NoWallet
        /\ localStorage' = AddStoredDocumentGlobal(localStorage, SignedDocument(hash))
        /\ addedUnder' = addedUnder \cup {<<ToLowerCase(walletAddress), hash>>}
        /\ UNCHANGED <<walletAddress, docs>>
        /\ UNCHANGED <<contractVars, tabVars>>

\* MyDocumentsTab.handleAddManual with a well-formed hash in the input
HandleAddManual ==
    \E hash \in ManualInputs :
        /\ walletAddress # NoWallet
        /\ RevokeEffectInSync
        /\ localStorage' = AddStoredDocumentGlobal(localStorage, ManualDocument(hash))
        /\ docs' = GetStoredDocumentsGlobal(localStorage')
        /\ addedUnder' = addedUnder \cup {<<ToLowerCase(walletAddress), hash>>}
        /\ RunFetchEffect([h \in DOMAIN onChain \ {hash} |-> onChain[h]], docs',
                          PropsNetwork(walletAddress, network))
        /\ UNCHANGED walletAddress
        /\ UNCHANGED <<contractVars, signVars, verifyVars, network>>
        /\ RevokeFrame

\* MyDocumentsTab.handleRemove of a listed document
HandleRemove ==
    \E i \in DOMAIN docs :
        /\ walletAddress # NoWallet
        /\ RevokeEffectInSync
        /\ localStorage' = RemoveStoredDocumentGlobal(localStorage, docs[i].hash)
        /\ docs' = GetStoredDocumentsGlobal(localStorage')
        /\ RunFetchEffect(onChain, docs', PropsNetwork(walletAddress, network))
        /\ UNCHANGED <<walletAddress, addedUnder>>
        /\ UNCHANGED <<contractVars, signVars, verifyVars, network>>
        /\ RevokeFrame

\* A call of the wallet-scoped getStoredDocuments(walletAddress)
GetStoredDocumentsCall ==
    \E w \in Wallets :
        /\ localStorage' = GetStoredDocuments(localStorage, w).storage
        /\ UNCHANGED <<walletAddress, docs, addedUnder>>
        /\ UNCHANGED <<contractVars, tabVars>>

\* A call of the wallet-scoped addStoredDocument(walletAddress, doc)
AddStoredDocumentCall ==
    \E w \in Wallets, hash \in ManualInputs :
        /\ localStorage' = AddStoredDocument(localStorage, w, SignedDocument(hash))
        /\ addedUnder' = addedUnder \cup {<<ToLowerCase(w), hash>>}
        /\ UNCHANGED <<walletAddress, docs>>
        /\ UNCHANGED <<contractVars, tabVars>>

\* A call of the wallet-scoped removeStoredDocument(walletAddress, hash)
RemoveStoredDocumentCall ==
    \E w \in Wallets, hash \in ManualInputs :
        /\ localStorage' = RemoveStoredDocument(localStorage, w, hash)
        /\ UNCHANGED <<walletAddress, docs, addedUnder>>
        /\ UNCHANGED <<contractVars, tabVars>>

StoreNext ==
    \/ WalletChanged
    \/ LoadDocs
    \/ SignConfirmed
    \/ HandleAddManual
    \/ HandleRemove
    \/ GetStoredDocumentsCall
    \/ AddStoredDocumentCall
    \/ RemoveStoredDocumentCall

SpecStore == Init /\ [][StoreNext]_vars

\* ---- the frontend: the Verify tab -------------------------------------------
VerifyFrame == UNCHANGED <<contractVars, storeVars, signVars, docsVars>>

\* VerifyTab.processAndVerify up to its first await: a file is dropped or
\* browsed. The invocation keeps the contract instance of its render.
ProcessAndVerify ==
    \E f \in Files, c \in BOOLEAN :
        /\ Cardinality(verifyRuns) < MaxRuns
        /\ verifyTab' = [file |-> f, hashHex |-> "",
                         state |-> VerifyState("hashing", "", NoRecord)]
        /\ verifyRuns' = verifyRuns \cup {[file |-> f, stage |-> "hashing", contract |-> c]}
        /\ UNCHANGED lastVerify
        /\ VerifyFrame

\* processAndVerify after hashDocumentToU256: hashing failed, or the hash is
\* shown and, with a contract instance, _verifyDocument is called.
VerifyHashingDone ==
    \E run \in verifyRuns, ok \in BOOLEAN :
        /\ run.stage = "hashing"
        /\ IF ~ok
           THEN /\ verifyTab' = [verifyTab EXCEPT
                                    !.state = VerifyState("error", ErrHash, NoRecord)]
                /\ verifyRuns' = verifyRuns \ {run}
                /\ lastVerify' = [NoVerify EXCEPT !.step = "hashing", !.file = run.file]
           ELSE IF ~run.contract
           THEN /\ verifyTab' = [verifyTab EXCEPT
                                    !.hashHex = HashHexOf(run.file),
                                    !.state = VerifyState("error", ErrNoContract, NoRecord)]
                /\ verifyRuns' = verifyRuns \ {run}
                /\ lastVerify' = [NoVerify EXCEPT !.step = "contract", !.hashed = TRUE,
                                                 !.file = run.file]
           ELSE /\ verifyTab' = [verifyTab EXCEPT
                                    !.hashHex = HashHexOf(run.file),
                                    !.state = VerifyState("verifying", "", NoRecord)]
                /\ verifyRuns' = (verifyRuns \ {run})
                                     \cup {[run EXCEPT !.stage = "verifying"]}
                /\ UNCHANGED lastVerify
        /\ VerifyFrame

\* processAndVerify after contract._verifyDocument(hash)
VerifyAnswered ==
    \E run \in verifyRuns, response \in VerifyResponses :
        /\ run.stage = "verifying"
        /\ verifyTab' = [verifyTab EXCEPT !.state = VerifyResult(response)]
        /\ verifyRuns' = verifyRuns \ {run}
        /\ lastVerify' = [step |-> "answer", hashed |-> TRUE, contract |-> TRUE,
                          file |-> run.file,
                          response |-> response]
        /\ VerifyFrame

VerifyInit ==
    /\ InitContract
    /\ localStorage = EmptyMap
    /\ walletAddress = NoWallet
    /\ docs = <<>>
    /\ addedUnder = {}
    /\ tab = "verify"
    /\ InitTabs

VerifyNext ==
    \/ ProcessAndVerify
    \/ VerifyHashingDone
    \/ VerifyAnswered

SpecVerify == VerifyInit /\ [][VerifyNext]_vars

\* ---- the frontend: the Sign tab ---------------------------------------------
\* What no SignTab step touches.
SignFrame == UNCHANGED <<contractVars, walletAddress, docs, verifyVars, docsVars>>

\* SignTab.processFile up to its await: a file is dropped or browsed.
ProcessFile ==
    \E f \in Files :
        /\ tab = "sign" /\ EffectInSync
        /\ signTab' = [signTab EXCEPT !.file = f, !.hashHex = "", !.txId = "",
                                      !.error = ""]
        /\ hashJobs' = hashJobs \cup {f}
        /\ UNCHANGED <<tab, signCall, pollEffect, pollsInFlight, submitted, txHash, mined,
                       localStorage, addedUnder>>
        /\ SignFrame

\* SignTab.processFile after its await: the hash of f arrives, or hashing fails.
HashingDone ==
    \E f \in hashJobs, ok \in BOOLEAN :
        /\ hashJobs' = hashJobs \ {f}
        /\ signTab' = IF ok THEN [signTab EXCEPT !.hashHex = HashHexOf(f)]
                            ELSE [signTab EXCEPT !.error = ErrHash]
        /\ UNCHANGED <<tab, signCall, pollEffect, pollsInFlight, submitted, txHash, mined,
                       localStorage, addedUnder>>
        /\ SignFrame

\* SignTab.handleSign up to its first await: the Sign Document button, enabled
\* as the render enables it, is clicked.
HandleSignStart ==
    /\ tab = "sign" /\ EffectInSync
    /\ walletAddress # NoWallet
    /\ signTab.txId = ""
    /\ ~SignDisabled(signTab)
    /\ signTab' = [signTab EXCEPT !.signing = TRUE, !.error = ""]
    /\ signCall' = [running |-> TRUE, hashHex |-> signTab.hashHex, mounted |-> TRUE]
    /\ UNCHANGED <<tab, hashJobs, pollEffect, pollsInFlight, submitted, txHash, mined,
                   localStorage, addedUnder>>
    /\ SignFrame

\* SignTab.handleSign from the simulation on: it reverts, the send fails, or
\* the node accepts the transaction and returns its id.
HandleSignDone ==
    /\ signCall.running
    /\ signCall' = NoSignCall
    /\ \/ /\ signTab' = IF signCall.mounted
                         THEN [signTab EXCEPT !.error = ErrSign, !.signing = FALSE]
                         ELSE signTab
          /\ UNCHANGED <<submitted, txHash>>
       \/ \E id \in TxIds \ submitted :
              /\ submitted' = submitted \cup {id}
              /\ txHash' = [txHash EXCEPT ![id] = signCall.hashHex]
              /\ signTab' = IF signCall.mounted
                            THEN [signTab EXCEPT !.pendingTxId = id, !.signing = FALSE]
                            ELSE signTab
    /\ UNCHANGED <<tab, hashJobs, pollEffect, pollsInFlight, mined,
                   localStorage, addedUnder>>
    /\ SignFrame

\* React runs the poll effect for a changed pendingTxId: the cleanup of the
\* previous closure, then, for a non-empty id, a new closure with its first
\* poll, its interval and its 60 s timeout.
RunPollEffect ==
    /\ tab = "sign" /\ ~EffectInSync
    /\ IF signTab.pendingTxId = ""
       THEN /\ pollEffect' = [pollEffect EXCEPT !.cancelled = TRUE, !.timeout = FALSE]
            /\ UNCHANGED pollsInFlight
       ELSE /\ pollEffect' = [txId |-> signTab.pendingTxId, file |-> signTab.file,
                               hashHex |-> signTab.hashHex, cancelled |-> FALSE,
                               timeout |-> TRUE]
            /\ pollsInFlight' = 1
    /\ UNCHANGED <<tab, signTab, hashJobs, signCall, submitted, txHash, mined,
                   localStorage, addedUnder>>
    /\ SignFrame

\* setInterval fires: another poll() is started.
IntervalTick ==
    /\ ~pollEffect.cancelled
    /\ pollsInFlight < MaxPolls
    /\ pollsInFlight' = pollsInFlight + 1
    /\ UNCHANGED <<tab, signTab, hashJobs, signCall, pollEffect, submitted, txHash, mined,
                   localStorage, addedUnder>>
    /\ SignFrame

\* poll() after its await: getTransaction answers with the mined transaction,
\* or with nothing or an error while it is not mined.
PollResponse ==
    /\ pollsInFlight > 0
    /\ pollsInFlight' = pollsInFlight - 1
    /\ IF ~pollEffect.cancelled /\ pollEffect.txId \in mined
       THEN LET c == Confirm(localStorage, signTab, pollEffect)
            IN  /\ localStorage' = c.storage
                /\ signTab' = c.state
                /\ addedUnder' =
                       IF c.storage # localStorage
                       THEN addedUnder \cup {<<ToLowerCase(walletAddress), pollEffect.hashHex>>}
                       ELSE addedUnder
       ELSE UNCHANGED <<localStorage, signTab, addedUnder>>
    /\ UNCHANGED <<tab, hashJobs, signCall, pollEffect, submitted, txHash, mined>>
    /\ SignFrame

\* The 60 s timer of the effect fires.
PollTimeout ==
    /\ ~pollEffect.cancelled /\ pollEffect.timeout
    /\ pollEffect' = [pollEffect EXCEPT !.timeout = FALSE]
    /\ LET c == Confirm(localStorage, signTab, pollEffect)
       IN  /\ localStorage' = c.storage
           /\ signTab' = c.state
           /\ addedUnder' =
                  IF c.storage # localStorage
                  THEN addedUnder \cup {<<ToLowerCase(walletAddress), pollEffect.hashHex>>}
                  ELSE addedUnder
    /\ UNCHANGED <<tab, hashJobs, signCall, pollsInFlight, submitted, txHash, mined>>
    /\ SignFrame

\* SignTab.resetState: Sign Another Document, shown in the success banner.
ResetState ==
    /\ tab = "sign" /\ EffectInSync
    /\ signTab.txId # ""
    /\ signTab' = [signTab EXCEPT !.file = NoFile, !.hashHex = "",
                                  !.pendingTxId = "", !.txId = "", !.error = ""]
    /\ UNCHANGED <<tab, hashJobs, signCall, pollEffect, pollsInFlight, submitted, txHash,
                   mined, localStorage, addedUnder>>
    /\ SignFrame

\* A tab button of App is clicked. Leaving the Sign tab unmounts SignTab: its
\* state is dropped, the effect cleanup runs, and what is still running
\* finishes without a component to update.
SwitchTab ==
    \E t \in Tabs \ {tab} :
        /\ tab = "sign" => EffectInSync
        /\ tab' = t
        /\ signTab' = SignTabInitial
        /\ hashJobs' = {}
        /\ signCall' = [signCall EXCEPT !.mounted = FALSE]
        /\ pollEffect' = [pollEffect EXCEPT !.cancelled = TRUE, !.timeout = FALSE]
        /\ UNCHANGED <<pollsInFlight, submitted, txHash, mined, localStorage, addedUnder>>
        /\ SignFrame

\* The network puts a submitted transaction into a block.
MineTx ==
    \E id \in submitted \ mined :
        /\ mined' = mined \cup {id}
        /\ UNCHANGED <<tab, signTab, hashJobs, signCall, pollEffect, pollsInFlight,
                       submitted, txHash, localStorage, addedUnder>>
        /\ SignFrame

\* The wallet is connected when the Sign tab is used.
SignInit ==
    /\ InitContract
    /\ localStorage = EmptyMap
    /\ walletAddress = "bc1qalice"
    /\ docs = <<>>
    /\ addedUnder = {}
    /\ tab = "sign"
    /\ InitTabs

SignNext ==
    \/ ProcessFile
    \/ HashingDone
    \/ HandleSignStart
    \/ HandleSignDone
    \/ RunPollEffect
    \/ IntervalTick
    \/ PollResponse
    \/ PollTimeout
    \/ ResetState
    \/ SwitchTab
    \/ MineTx

SpecSign == SignInit /\ [][SignNext]_vars

\* ---- the frontend: the My Documents tab ---------------------------------------
DocsFrame ==
    UNCHANGED <<contractVars, verifyVars, tab, signTab, hashJobs, signCall,
                pollEffect, pollsInFlight>>

\* The wallet switches network: provider and contract are new objects, so the
\* fetch effect runs again; the revoke poll effect is left to RunRevokeEffect.
NetworkChanged ==
    \E n \in Networks \ {network} :
        /\ network' = n
        /\ RunFetchEffect(onChain, docs, PropsNetwork(walletAddress, n))
        /\ UNCHANGED <<storeVars, submitted, txHash, mined>>
        /\ RevokeFrame
        /\ DocsFrame

\* A _verifyDocument call of the fetch effect is answered or fails.
FetchAnswered ==
    \E hash \in fetches, ok \in BOOLEAN :
        /\ fetches' = fetches \ {hash}
        /\ onChain' = MapSet(onChain, hash,
                             IF ok THEN OnChainAnswer(hash) ELSE OnChainFailed)
        /\ UNCHANGED <<storeVars, network, submitted, txHash, mined>>
        /\ RevokeFrame
        /\ DocsFrame

\* MyDocumentsTab.handleRevoke up to its first await: the Revoke button of a
\* card is clicked.
HandleRevokeStart ==
    \E i \in DOMAIN docs :
        /\ walletAddress # NoWallet
        /\ RevokeEffectInSync
        /\ RevokeShown(onChain, pendingRevoke, docs[i].hash)
        /\ ~RevokeDisabled(revoking)
        /\ revoking' = docs[i].hash
        /\ revokeError' = MapSet(revokeError, docs[i].hash, "")
        /\ revokeCall' = [running |-> TRUE, hash |-> docs[i].hash,
                          network |-> network]
        /\ UNCHANGED <<storeVars, network, onChain, fetches, pendingRevoke,
                       revokeEffect, revokePolls, submitted, txHash, mined>>
        /\ DocsFrame

\* MyDocumentsTab.handleRevoke from its first await to its return
HandleRevokeDone ==
    /\ revokeCall.running
    /\ revokeCall' = NoRevokeCall
    /\ IF ~HasContract(revokeCall.network)
       THEN /\ revokeError' = MapSet(revokeError, revokeCall.hash,
                                   "Contract not available.")
            /\ UNCHANGED <<revoking, pendingRevoke, submitted, txHash>>
       ELSE \/ \E e \in {"Document already revoked", "Transaction failed",
                       "Revoke failed"} :
                /\ revokeError' = MapSet(revokeError, revokeCall.hash, e)
                /\ revoking' = NoHash
                /\ UNCHANGED <<pendingRevoke, submitted, txHash>>
            \/ /\ revoking' = NoHash
               /\ UNCHANGED <<revokeError, pendingRevoke, submitted, txHash>>
            \/ \E id \in TxIds \ submitted :
                /\ pendingRevoke' = [hash |-> revokeCall.hash, txId |-> id]
                /\ submitted' = submitted \cup {id}
                /\ txHash' = [txHash EXCEPT ![id] = revokeCall.hash]
                /\ UNCHANGED <<revoking, revokeError>>
    /\ UNCHANGED <<storeVars, network, onChain, fetches, revokeEffect, revokePolls, mined>>
    /\ DocsFrame

\* The revoke poll effect after a render with a new pendingRevoke or provider:
\* the cleanup of the previous run, then the new run with its first poll.
RunRevokeEffect ==
    /\ ~RevokeEffectInSync
    /\ IF pendingRevoke = NoPendingRevoke \/ PropsNetwork(walletAddress, network) = "null"
       THEN /\ revokeEffect' = [revokeEffect EXCEPT !.cancelled = TRUE, !.timeout = FALSE]
            /\ UNCHANGED revokePolls
       ELSE /\ revokeEffect' = [hash |-> pendingRevoke.hash, txId |-> pendingRevoke.txId,
                                network |-> network, cancelled |-> FALSE,
                                timeout |-> TRUE]
            /\ revokePolls' = 1
    /\ UNCHANGED <<storeVars, network, onChain, fetches, revoking, pendingRevoke,
                   revokeError, revokeCall, submitted, txHash, mined>>
    /\ DocsFrame

\* setInterval(poll, 5000) of the revoke poll effect
RevokeIntervalTick ==
    /\ ~revokeEffect.cancelled
    /\ revokePolls < MaxPolls
    /\ revokePolls' = revokePolls + 1
    /\ UNCHANGED <<storeVars, network, onChain, fetches, revoking, pendingRevoke,
                   revokeError, revokeCall, revokeEffect, submitted, txHash, mined>>
    /\ DocsFrame

\* provider.getTransaction of a revoke poll answers.
RevokePollResponse ==
    /\ revokePolls > 0
    /\ revokePolls' = revokePolls - 1
    /\ IF ~revokeEffect.cancelled /\ revokeEffect.txId \in mined
       THEN /\ pendingRevoke' = NoPendingRevoke
            /\ revoking' = NoHash
            /\ onChain' = MapSet(onChain, revokeEffect.hash,
                                 OnChainRefresh(onChain, revokeEffect.hash))
       ELSE UNCHANGED <<pendingRevoke, revoking, onChain>>
    /\ UNCHANGED <<storeVars, network, fetches, revokeError, revokeCall, revokeEffect,
                   submitted, txHash, mined>>
    /\ DocsFrame

\* The 60 second timer of the revoke poll effect fires.
RevokeTimeout ==
    /\ ~revokeEffect.cancelled
    /\ revokeEffect.timeout
    /\ revokeEffect' = [revokeEffect EXCEPT !.timeout = FALSE]
    /\ pendingRevoke' = NoPendingRevoke
    /\ revoking' = NoHash
    /\ UNCHANGED <<storeVars, network, onChain, fetches, revokeError, revokeCall,
                   revokePolls, submitted, txHash, mined>>
    /\ DocsFrame

\* My Documents is open on testnet with two signed documents in the list; the
\* fetch effect has run for them.
DocsInit ==
    LET DocsList == <<SignedDocument("0xaa"), SignedDocument("0x0b")>>
    IN
        /\ InitContract
        /\ localStorage = SetItem(EmptyMap, KEY, DocsList)
        /\ walletAddress = "bc1qalice"
        /\ docs = DocsList
        /\ addedUnder = {<<"bc1qalice", "0xaa">>, <<"bc1qalice", "0x0b">>}
        /\ tab = "mydocs"
        /\ network = "testnet"
        /\ verifyTab = VerifyTabInitial
        /\ verifyRuns = {}
        /\ lastVerify = NoVerify
        /\ signTab = SignTabInitial
        /\ hashJobs = {}
        /\ signCall = NoSignCall
        /\ pollEffect = NoEffect
        /\ pollsInFlight = 0
        /\ submitted = {}
        /\ txHash = [id \in TxIds |-> ""]
        /\ mined = {}
        /\ onChain = FetchEffect(EmptyMap, DocsList, "testnet")
        /\ fetches = FetchTargets(EmptyMap, DocsList, "testnet")
        /\ revoking = NoHash
        /\ pendingRevoke = NoPendingRevoke
        /\ revokeError = EmptyMap
        /\ revokeCall = NoRevokeCall
        /\ revokeEffect = NoRevokeEffect
        /\ revokePolls = 0

DocsNext ==
    \/ NetworkChanged
    \/ FetchAnswered
    \/ HandleRevokeStart
    \/ HandleRevokeDone
    \/ RunRevokeEffect
    \/ RevokeIntervalTick
    \/ RevokePollResponse
    \/ RevokeTimeout
    \/ MineTx
    \/ HandleRemove

SpecDocs == DocsInit /\ [][DocsNext]_vars

\* ---- vocabulary of the properties ------------------------------------------
\* A registration of h has succeeded: its DocumentSigned event was emitted.
Registered(h) ==
    \E i \in DOMAIN events :
        events[i].type = "DocumentSigned" /\ events[i].hash = h

\* A revocation of h has succeeded: its DocumentRevoked event was emitted.
RevocationDone(h) ==
    \E i \in DOMAIN events :
        events[i].type = "DocumentRevoked" /\ events[i].hash = h

\* P holds of every _signDocument transaction the host can run in the current
\* state: of its hash, its sender and the result the contract gives it.
EverySignCall(P(_, _, _)) ==
    \A h \in Hashes, c \in Addresses :
        P(h, c, SignDocument(State, h, c, blockNumber))

\* P holds of every _revokeDocument transaction the host can run in the
\* current state.
EveryRevokeCall(P(_, _, _)) ==
    \A h \in Hashes, c \in Addresses :
        P(h, c, RevokeDocument(State, h, c))

\* P holds of every read call the host can run in the current state.
EveryReadCall(P(_)) ==
    /\ \A h \in Hashes : P(VerifyDocumentCall(State, h))
    /\ P(GetDocCountCall(State))
    /\ \A a \in Addresses : P(GetSignerDocCountCall(State, a))

RECURSIVE SumCounts(_, _)
SumCounts(count, S) ==
    IF S = {} THEN 0
    ELSE LET a == CHOOSE x \in S : TRUE
         IN  count[a] + SumCounts(count, S \ {a})

\* ---- C1 ----------------------------------------------------------------------
C1_Holds(h, c, r) ==
    Registered(h) =>
        /\ r.reason = AlreadyRegistered
        /\ r.state.docSigner[h] = docSigner[h]
        /\ r.state.docBlock[h] = docBlock[h]
        /\ r.state.docRevoked[h] = docRevoked[h]
        /\ r.state.totalDocCount = totalDocCount
        /\ r.state.signerDocCount = signerDocCount

\* C1: for every fingerprint whose registration has succeeded, _signDocument by
\* any sender reverts with 'Document already registered' and leaves the record
\* (signer, block, revoked flag) and both counters unchanged.
C1_DuplicateRegisterRejected == EverySignCall(C1_Holds)

\* ---- C2 ----------------------------------------------------------------------
\* C2: after a successful registration of h by O at height H (its
\* DocumentSigned event), _verifyDocument(h) returns signer O and blockHeight H
\* in every later state.
C2_WriteOnce ==
    \A i \in DOMAIN events :
        events[i].type = "DocumentSigned" =>
            LET q == VerifyDocument(State, events[i].hash)
            IN  /\ q.signer = events[i].signer
                /\ q.blockHeight = events[i].blockHeight

\* ---- C3 ----------------------------------------------------------------------
C3_Holds(h, c, r) ==
    (Registered(h) /\ AddressToU256(c) # docSigner[h]) =>
        /\ r.reason = NotOriginalOwner
        /\ r.state.docRevoked[h] = docRevoked[h]

\* C3: _revokeDocument(h) on a registered fingerprint by a sender other than
\* the stored signer reverts with 'Not the document signer' and leaves the
\* revoked flag as it was.
C3_WrongSignerRejected == EveryRevokeCall(C3_Holds)

\* ---- C4 ----------------------------------------------------------------------
\* The call sets the revoked flag of g.
SetsRevoked(r, g) == IsZero(docRevoked[g]) /\ ~IsZero(r.state.docRevoked[g])

C4_SignHolds(h, c, r) == \A g \in Hashes : ~SetsRevoked(r, g)

C4_RevokeHolds(h, c, r) ==
    \A g \in Hashes :
        SetsRevoked(r, g) =>
            /\ g = h
            /\ r.reason = OK
            /\ AddressToU256(c) = docSigner[g]

\* C4: whenever a transaction turns the revoked flag of a fingerprint g from 0
\* to 1, it is a successful _revokeDocument(g) whose sender is the stored signer
\* of g; no _signDocument and no other sender sets the flag.
C4_OnlySignerRevokes ==
    EverySignCall(C4_SignHolds) /\ EveryRevokeCall(C4_RevokeHolds)

\* A revocation has just been committed.
C4_Witness ==
    /\ lastCall = [op |-> RevokeOp, reason |-> OK]
    /\ \E g \in Hashes : docRevoked[g] = 1 /\ ~IsZero(docSigner[g])

\* ---- C5 ----------------------------------------------------------------------
C5_Holds(h, c, r) ==
    (RevocationDone(h) /\ AddressToU256(c) = docSigner[h]) =>
        /\ r.reason = AlreadyRevoked
        /\ VerifyDocument(r.state, h).revoked

\* C5: once a revocation of h has succeeded, _revokeDocument(h) by the stored
\* signer reverts with 'Document already revoked' and the flag stays set.
C5_OneShotRevoke == EveryRevokeCall(C5_Holds)

\* A second revocation has just been rejected.
C5_Witness ==
    /\ lastCall = [op |-> RevokeOp, reason |-> AlreadyRevoked]
    /\ \E h \in Hashes : RevocationDone(h)

\* ---- C6 ----------------------------------------------------------------------
C6_Holds(h, c, r) ==
    ~Registered(h) => (r.reason = NotFound /\ r.state = State)

\* C6: _revokeDocument(h) for a fingerprint never registered reverts with
\* 'Document not found' for every sender and changes nothing: no record, no
\* counter, no event.
C6_RevokeUnregisteredNotFound == EveryRevokeCall(C6_Holds)

\* A revocation of an unregistered fingerprint has just been rejected, with
\* another fingerprint registered.
C6_Witness ==
    /\ lastCall = [op |-> RevokeOp, reason |-> NotFound]
    /\ \E h, g \in Hashes : ~Registered(h) /\ Registered(g)

\* ---- C7 ----------------------------------------------------------------------
\* C7: in every reachable state totalDocCount is the sum of signerDocCount
\* over all addresses.
C7_CounterIdentity == totalDocCount = SumCounts(signerDocCount, Addresses)

\* Two signers have registered and a revocation has been committed.
C7_Witness ==
    /\ \E a, b \in Addresses :
           a # b /\ signerDocCount[a] > 0 /\ signerDocCount[b] > 0
    /\ lastCall = [op |-> RevokeOp, reason |-> OK]

\* ---- C8 ----------------------------------------------------------------------
C8_Holds(h, c, r) ==
    /\ GetDocCount(r.state) = GetDocCount(State)
    /\ \A a \in Addresses :
           GetSignerDocCount(r.state, a) = GetSignerDocCount(State, a)

\* C8: no _revokeDocument transaction, committed or reverted, changes
\* totalDocCount or any signerDocCount entry.
C8_RevokeKeepsCounters == EveryRevokeCall(C8_Holds)

\* A revocation has been committed with the counters at a non-zero value.
C8_Witness ==
    /\ lastCall = [op |-> RevokeOp, reason |-> OK]
    /\ totalDocCount > 0
    /\ \E h \in Hashes : RevocationDone(h) /\ signerDocCount[docSigner[h]] > 0

\* ---- C9 ----------------------------------------------------------------------
C9_Holds(h, c, r) ==
    \A g \in Hashes :
        LET before == VerifyDocument(State, g)
            after == VerifyDocument(r.state, g)
        IN  /\ before.exists => after.exists
            /\ before.revoked => after.revoked
            /\ (~before.exists /\ after.exists) => ~after.revoked

C10_Holds(h, c, r) == r.reason # OK => r.state = State

AppendsExactly(r, e) == r.state.events = Append(events, e)

C11_SignHolds(h, c, r) ==
    IF r.reason = OK
    THEN AppendsExactly(r, [type |-> "DocumentSigned", hash |-> h,
                            signer |-> AddressToU256(c),
                            blockHeight |-> r.state.docBlock[h]])
    ELSE r.state.events = events

C11_RevokeHolds(h, c, r) ==
    IF r.reason = OK
    THEN AppendsExactly(r, [type |-> "DocumentRevoked", hash |-> h,
                            signer |-> docSigner[h]])
    ELSE r.state.events = events

C11_ReadHolds(r) == r.state.events = events

\* C11: a committed _signDocument appends exactly one DocumentSigned event
\* (hash, sender, recorded height), a committed _revokeDocument exactly one
\* DocumentRevoked event (hash, owner); reverted calls and reads append nothing,
\* no other event type occurs, and the events already emitted stay as they are.
C11_EventsAppendOnly ==
    /\ EverySignCall(C11_SignHolds)
    /\ EveryRevokeCall(C11_RevokeHolds)
    /\ EveryReadCall(C11_ReadHolds)
    /\ \A i \in DOMAIN events :
           events[i].type \in {"DocumentSigned", "DocumentRevoked"}

\* Both kinds of event have been emitted, and a read has just been served.
C11_Witness ==
    /\ \E i, j \in DOMAIN events :
           events[i].type = "DocumentSigned" /\ events[j].type = "DocumentRevoked"
    /\ lastCall = [op |-> VerifyOp, reason |-> OK]

\* ---- C12 ---------------------------------------------------------------------
\* A _signDocument(h) sent by the zero address has committed.
RegisteredByZero(h) ==
    \E i \in DOMAIN events :
        /\ events[i].type = "DocumentSigned"
        /\ events[i].hash = h
        /\ IsZero(events[i].signer)

C12_SignHolds(h, c, r) == RegisteredByZero(h) => r.reason = AlreadyRegistered

C12_RevokeHolds(h, c, r) ==
    (RegisteredByZero(h) /\ IsZero(AddressToU256(c)))
        => r.reason \notin {NotFound, NotOriginalOwner}

\* C12: existence does not depend on the owner's value: once the zero address
\* has registered h, _verifyDocument(h) reports exists, every further
\* _signDocument(h) reverts with "Document already registered", and
\* _revokeDocument(h) sent by the zero address passes the lookup and the
\* signer check.
C12_ZeroOwnerIsARecord ==
    /\ \A h \in Hashes : RegisteredByZero(h) => VerifyDocument(State, h).exists
    /\ EverySignCall(C12_SignHolds)
    /\ EveryRevokeCall(C12_RevokeHolds)

\* ---- C13 ---------------------------------------------------------------------
\* C13: in every reachable state the stored signer of every registered
\* fingerprint is not zero.
C13_OwnerNeverZero ==
    \A h \in Hashes : Registered(h) => ~IsZero(docSigner[h])

\* ---- C14 ---------------------------------------------------------------------
C14_Holds(h, c, r) ==
    (/\ ~Registered(h)
     /\ \/ totalDocCount = MaxCount
        \/ signerDocCount[c] = MaxCount)
        => r.reason = Overflow /\ r.state = State

\* C14: with totalDocCount or the sender's signerDocCount at the largest value,
\* _signDocument of a fingerprint not yet registered reverts with the SafeMath
\* overflow reason and leaves no record, no counter change and no event.
C14_OverflowReverts == EverySignCall(C14_Holds)

\* Such a registration has just been refused, and the counter did not wrap.
C14_Witness ==
    /\ lastCall = [op |-> SignOp, reason |-> Overflow]
    /\ totalDocCount = MaxCount
    /\ \E h \in Hashes : ~Registered(h) /\ docBlock[h] = 0

\* ---- C15 ---------------------------------------------------------------------
\* The answer of _verifyDocument for a fingerprint without a record.
AbsentView == [exists |-> FALSE, signer |-> 0, blockHeight |-> 0, revoked |-> FALSE]

\* C15: in every reachable state _verifyDocument of a fingerprint that was never
\* registered answers (false, 0, 0, false), whatever happened to the other
\* fingerprints.
C15_UnknownReadsAbsent ==
    \A h \in Hashes :
        ~Registered(h) => VerifyDocumentCall(State, h).value = AbsentView

\* One fingerprint is registered and revoked, another was never registered and
\* has just been looked up.
C15_Witness ==
    /\ lastCall = [op |-> VerifyOp, reason |-> OK]
    /\ \E h, g \in Hashes :
           /\ ~Registered(h)
           /\ Registered(g) /\ RevocationDone(g)

\* ---- C16 ---------------------------------------------------------------------
C16_Holds(h, c, r) ==
    r.reason = OK =>
        /\ r.state.totalDocCount = totalDocCount + 1
        /\ r.state.signerDocCount[c] = signerDocCount[c] + 1
        /\ \A a \in Addresses \ {c} :
               r.state.signerDocCount[a] = signerDocCount[a]
        /\ \A g \in Hashes \ {h} :
               /\ r.state.docSigner[g] = docSigner[g]
               /\ r.state.docBlock[g] = docBlock[g]
               /\ r.state.docRevoked[g] = docRevoked[g]

\* C16: a committed _signDocument(h) sent by O raises totalDocCount and
\* signerDocCount[O] by exactly one and leaves every other signer's count and
\* every other fingerprint's record as they were.
C16_RegisterFrame == EverySignCall(C16_Holds)

\* A registration has committed while another signer holds a count and another
\* fingerprint holds a record.
C16_Witness ==
    /\ lastCall = [op |-> SignOp, reason |-> OK]
    /\ \E a, b \in Addresses :
           a # b /\ signerDocCount[a] > 0 /\ signerDocCount[b] > 0
    /\ \A h \in Hashes : Registered(h)

\* ---- C17 ---------------------------------------------------------------------
\* Every later _signDocument and _revokeDocument ends the same way from the
\* state a read leaves behind as from the state it found.
SameLaterOutcomes(after) ==
    /\ \A h \in Hashes, c \in Addresses :
           SignDocument(after, h, c, blockNumber)
               = SignDocument(State, h, c, blockNumber)
    /\ \A h \in Hashes, c \in Addresses :
           RevokeDocument(after, h, c) = RevokeDocument(State, h, c)
    /\ \A h \in Hashes : VerifyDocument(after, h) = VerifyDocument(State, h)
    /\ GetDocCount(after) = GetDocCount(State)
    /\ \A a \in Addresses : GetSignerDocCount(after, a) = GetSignerDocCount(State, a)

C17_Holds(r) ==
    /\ r.reason = OK
    /\ r.state = State
    /\ SameLaterOutcomes(r.state)

\* C17: _verifyDocument, _getDocCount and _getSignerDocCount never revert and
\* never change records, counters or events, so every operation that follows a
\* read ends as it would have ended without the read.
C17_ReadsArePure == EveryReadCall(C17_Holds)

\* A per-signer count has just been read in a state with a revoked record.
C17_Witness ==
    /\ lastCall = [op |-> GetSignerDocCountOp, reason |-> OK]
    /\ \E h \in Hashes : RevocationDone(h)
    /\ totalDocCount > 0

\* ---- C18 ---------------------------------------------------------------------
\* The two ends of the key space: 0 and the largest hash value.
LeastHash == CHOOSE h \in Hashes : \A g \in Hashes : h <= g

GreatestHash == CHOOSE h \in Hashes : \A g \in Hashes : h >= g

EdgeHashes == {LeastHash, GreatestHash}

\* The key that trades places with h when the key space is turned end for end.
Mirror(h) == LeastHash + GreatestHash - h

MirrorEvent(e) == [e EXCEPT !.hash = Mirror(@)]

\* The state in which every record and event sits under the mirrored key.
MirrorState(s) ==
    [s EXCEPT !.docSigner = [k \in Hashes |-> s.docSigner[Mirror(k)]],
              !.docBlock = [k \in Hashes |-> s.docBlock[Mirror(k)]],
              !.docRevoked = [k \in Hashes |-> s.docRevoked[Mirror(k)]],
              !.events = [i \in DOMAIN s.events |-> MirrorEvent(s.events[i])]]

MirrorResult(r) == [state |-> MirrorState(r.state), reason |-> r.reason]

\* The sender's canonical value can be told from the empty slot.
NonZeroSender(c) == ~IsZero(AddressToU256(c))

C18_SignHolds(h, c, r) ==
    /\ SignDocument(MirrorState(State), Mirror(h), c, blockNumber) = MirrorResult(r)
    /\ (/\ h \in EdgeHashes /\ NonZeroSender(c) /\ ~Registered(h)
        /\ ~AddOverflows(totalDocCount, 1) /\ ~AddOverflows(signerDocCount[c], 1))
           => /\ r.reason = OK
              /\ VerifyDocument(r.state, h)
                    = [exists |-> TRUE, signer |-> AddressToU256(c),
                       blockHeight |-> blockNumber, revoked |-> FALSE]
    /\ (h \in EdgeHashes /\ ~IsZero(docSigner[h]))
           => r.reason = AlreadyRegistered

C18_RevokeHolds(h, c, r) ==
    /\ RevokeDocument(MirrorState(State), Mirror(h), c) = MirrorResult(r)
    /\ (/\ h \in EdgeHashes /\ NonZeroSender(c)
        /\ docSigner[h] = AddressToU256(c) /\ IsZero(docRevoked[h]))
           => /\ r.reason = OK
              /\ VerifyDocument(r.state, h).revoked

\* C18: the hash values 0 and the largest one are keys like any other. Every
\* call on a hash ends as the same call ends on the mirrored hash holding the
\* same record; and each of the two edge hashes can be registered (the lookup
\* then shows exists with the sender as signer), refuses a second registration
\* and can be revoked by its signer.
C18_EdgeHashesOrdinary ==
    /\ EverySignCall(C18_SignHolds)
    /\ EveryRevokeCall(C18_RevokeHolds)
    /\ \A h \in Hashes :
           VerifyDocument(MirrorState(State), Mirror(h)) = VerifyDocument(State, h)

\* Both edge hashes have been registered and revoked by their signers.
C18_Witness ==
    /\ lastCall = [op |-> RevokeOp, reason |-> OK]
    /\ LeastHash = 0 /\ GreatestHash # LeastHash
    /\ \A h \in EdgeHashes :
           /\ Registered(h) /\ RevocationDone(h)
           /\ VerifyDocument(State, h).exists
           /\ VerifyDocument(State, h).revoked

\* ---- C19 ---------------------------------------------------------------------
\* C19: the simulator, driven with the same senders, hashes and block heights
\* as the contract, is in step with it: every call ends in both with the same
\* outcome (success, or a revert with the same reason), and every lookup and
\* every count reads the same in both.
C19_SimulatorMirrors ==
    /\ \A h \in Hashes, c \in Addresses :
           SignDocument(State, h, c, blockNumber).reason
               = SimSignDocument(sim, h, AddressToU256(c), blockNumber).reason
    /\ \A h \in Hashes, c \in Addresses :
           RevokeDocument(State, h, c).reason
               = SimRevokeDocument(sim, h, AddressToU256(c)).reason
    /\ \A h \in Hashes : VerifyDocument(State, h) = SimVerifyDocument(sim, h)
    /\ GetDocCount(State) = SimGetDocCount(sim)
    /\ \A a \in Addresses :
           GetSignerDocCount(State, a) = SimGetSignerDocCount(sim, AddressToU256(a))

\* ---- C20 ---------------------------------------------------------------------
\* The document with this hash was added while w, in any spelling, was the
\* wallet it was added under.
AddedUnderWallet(w, hash) == <<ToLowerCase(w), hash>> \in addedUnder

\* C20: the local list is scoped per wallet. getStoredDocuments(w) returns only
\* documents that were added under wallet w, the migration of the legacy list
\* included, and the list My Documents shows while a wallet is connected holds
\* only documents added under that wallet.
C20_ListScopedPerWallet ==
    /\ \A w \in Wallets :
           LET list == GetStoredDocuments(localStorage, w).list
           IN  \A i \in DOMAIN list : AddedUnderWallet(w, list[i].hash)
    /\ walletAddress # NoWallet =>
           \A i \in DOMAIN docs : AddedUnderWallet(walletAddress, docs[i].hash)

\* ---- C21 ---------------------------------------------------------------------
\* C21: SignTab is in its success state, with txId set and the certificate on
\* offer, only for a transaction that is in a block, and a document is in the
\* local list only with such a transaction.
C21_SuccessOnlyAfterConfirmation ==
    /\ signTab.txId # "" => signTab.txId \in mined
    /\ LET list == GetStoredDocumentsGlobal(localStorage)
       IN  \A i \in DOMAIN list : list[i].txId \in mined

\* ---- C22 ---------------------------------------------------------------------
\* The state a finished invocation leaves, from what it met.
StateAfter(met) ==
    IF met.step = "hashing" THEN VerifyState("error", ErrHash, NoRecord)
    ELSE IF met.step = "contract" THEN VerifyState("error", ErrNoContract, NoRecord)
    ELSE VerifyResult(met.response)

\* The latest step of VerifyTab was the end of an invocation.
VerifyJustFinished ==
    /\ lastVerify.step # "none"
    /\ verifyTab.state.status \notin {"hashing", "verifying"}

C22_ResponseHolds(response) ==
    LET st == VerifyResult(response)
    IN  /\ st.status \in {"verified", "not-found", "error"}
        /\ (response.kind = "properties" /\ ~response.exists) => ShowsNotFound(st)
        /\ (response.kind = "properties" /\ response.exists) =>
               /\ st.status = "verified"
               /\ ShowsActive(st) <=> ~response.revoked
               /\ ShowsRevoked(st) <=> response.revoked
        /\ response.kind \in {"revert", "throw"} => ShowsError(st)
        /\ ~(ShowsActive(st) /\ ShowsRevoked(st))

\* C22: a finished verification is in exactly one of verified, not-found and
\* error. exists=false gives not-found whatever the other fields are;
\* exists=true gives verified, shown ACTIVE iff not revoked and REVOKED iff
\* revoked, never both; a revert, a rejected call, a hashing failure and a
\* missing contract give error.
C22_VerifyOutcome ==
    /\ \A response \in VerifyResponses : C22_ResponseHolds(response)
    /\ VerifyJustFinished =>
           /\ verifyTab.state = StateAfter(lastVerify)
           /\ lastVerify.step \in {"hashing", "contract"} => ShowsError(verifyTab.state)
           /\ lastVerify.step = "answer" => C22_ResponseHolds(lastVerify.response)
           /\ Cardinality({k \in {"verified", "not-found", "error"} :
                              verifyTab.state.status = k}) = 1

\* A verification has ended not-found on an answer with exists=false and a
\* non-zero signer.
C22_Witness ==
    /\ VerifyJustFinished
    /\ lastVerify.step = "answer"
    /\ lastVerify.response.kind = "properties"
    /\ ~lastVerify.response.exists /\ lastVerify.response.signer # 0
    /\ ShowsNotFound(verifyTab.state)

\* ---- C23 ------------------------------------------------------------------
\* C23: a revocation reports the first failing check in the order NotFound,
\* NotOriginalOwner, AlreadyRevoked.  A fingerprint that was never registered
\* answers NotFound; a caller who is not the stored owner of a revoked record
\* answers NotOriginalOwner; AlreadyRevoked is only ever told to the stored
\* owner, and NotOriginalOwner only about a stored owner.
C23_Holds(h, c, r) ==
    /\ ~Registered(h) => r.reason = NotFound
    /\ (IsRevoked(docRevoked[h]) /\ AddressToU256(c) # docSigner[h])
           => r.reason = NotOriginalOwner
    /\ r.reason = NotOriginalOwner => ~IsZero(docSigner[h])
    /\ r.reason = AlreadyRevoked
           => ~IsZero(docSigner[h]) /\ AddressToU256(c) = docSigner[h]

C23_FirstFailingCheck == EveryRevokeCall(C23_Holds)

\* A caller who is not the owner has just been refused on a revoked record:
\* every fingerprint is revoked, so the refused call aimed at one of them.
C23_Witness ==
    /\ lastCall = [op |-> RevokeOp, reason |-> NotOriginalOwner]
    /\ \A h \in Hashes : IsRevoked(docRevoked[h])

\* ---- C24 ------------------------------------------------------------------
\* C24: a successful revoke(h) changes the revoked flag of h and nothing else
\* of the ledger: the owner and height of h, and the owner, height and
\* revoked flag of every other fingerprint, are as before.
C24_Holds(h, c, r) ==
    r.reason = OK =>
        /\ IsRevoked(r.state.docRevoked[h])
        /\ r.state.docSigner = docSigner
        /\ r.state.docBlock = docBlock
        /\ \A g \in Hashes \ {h} : r.state.docRevoked[g] = docRevoked[g]

C24_RevokeFrame == EveryRevokeCall(C24_Holds)

\* A revocation has just succeeded while the revoking owner holds another,
\* still active record registered at a non-zero height.
C24_Witness ==
    /\ lastCall = [op |-> RevokeOp, reason |-> OK]
    /\ \E h \in Hashes : \E g \in Hashes \ {h} :
           /\ IsRevoked(docRevoked[h]) /\ ~IsRevoked(docRevoked[g])
           /\ ~IsZero(docSigner[h]) /\ docSigner[g] = docSigner[h]
           /\ docBlock[h] > 0

\* ---- C25 ------------------------------------------------------------------
\* C25: in every reachable state the total count equals the number of
\* fingerprints that have a record.
C25_CountMatchesRecords ==
    totalDocCount = Cardinality({h \in Hashes : Registered(h)})

\* C25, second half: no transaction lowers the total count or the count of
\* any owner.
C25_CountsNeverDecrease ==
    [][/\ totalDocCount' >= totalDocCount
       /\ \A a \in DOMAIN signerDocCount :
              signerDocCount'[a] >= signerDocCount[a]]_vars

\* ---- C26 ------------------------------------------------------------------
EventsOf(type, h) ==
    {i \in DOMAIN events : events[i].type = type /\ events[i].hash = h}

C26_RegisteredEventsCounted ==
    Cardinality({i \in DOMAIN events : events[i].type = "DocumentSigned"})
        = totalDocCount

C26_AtMostOneEventEach ==
    \A h \in Hashes :
        /\ Cardinality(EventsOf("DocumentSigned", h)) <= 1
        /\ Cardinality(EventsOf("DocumentRevoked", h)) <= 1

C26_RevokedEventIffFlag ==
    \A h \in Hashes : RevocationDone(h) <=> IsRevoked(docRevoked[h])

C26_RevokedAfterRegistered ==
    \A h \in Hashes : \A j \in EventsOf("DocumentRevoked", h) :
        /\ EventsOf("DocumentSigned", h) # {}
        /\ \A i \in EventsOf("DocumentSigned", h) :
               i < j /\ events[i].signer = events[j].signer

\* C26: the event log agrees with the ledger: as many registered events as
\* the total count, every fingerprint in at most one registered and at most
\* one revoked event, a revoked event exactly for the fingerprints whose
\* revoked flag is set, and every revoked event after the registered event of
\* its fingerprint and with the same owner.
C26_EventsAgreeWithLedger ==
    /\ C26_RegisteredEventsCounted
    /\ C26_AtMostOneEventEach
    /\ C26_RevokedEventIffFlag
    /\ C26_RevokedAfterRegistered

StoredLists == {localStorage[k] : k \in DOMAIN localStorage}

\* No two entries of the list denote the same 256-bit number.
OneEntryPerFingerprint(list) ==
    \A i \in DOMAIN list : \A j \in DOMAIN list :
        BigInt(list[i].hash) = BigInt(list[j].hash) => i = j

\* C28: whatever confirmations, manual additions, removals and migrations
\* have happened, the list the tab shows holds no two entries that denote the
\* same fingerprint.
C28_OneEntryPerDocument ==
    OneEntryPerFingerprint(GetStoredDocumentsGlobal(localStorage))

\* C28, as the store sees it: no list holds the same hash text twice.
C28_OneEntryPerText ==
    \A list \in StoredLists :
        \A i \in DOMAIN list : \A j \in DOMAIN list :
            list[i].hash = list[j].hash => i = j

\* ---- C29 ------------------------------------------------------------------
\* The last n entries of a list.
Tail_n(list, n) == SubSeq(list, Len(list) - n + 1, Len(list))

C29_Holds(w) ==
    LET legacy == ParseItem(localStorage, LEGACY_KEY)
        existing == ParseItem(localStorage, walletKey(w))
        got == GetStoredDocuments(localStorage, w)
        added == Len(got.list) - Len(existing)
    IN  \* the legacy key is gone
        /\ ~MapHas(got.storage, LEGACY_KEY)
        \* every legacy document is in the wallet's list
        /\ \A i \in DOMAIN legacy : SomeHash(got.list, legacy[i].hash)
        \* the wallet's own entries are kept, at the end and in their order
        /\ added >= 0 /\ Tail_n(got.list, Len(existing)) = existing
        \* before them come the legacy entries the wallet did not have
        /\ SubSeq(got.list, 1, added)
               = SelectSeq(legacy, LAMBDA d : ~SomeHash(existing, d.hash))
        \* no hash twice
        /\ \A i \in DOMAIN got.list : \A j \in DOMAIN got.list :
               got.list[i].hash = got.list[j].hash => i = j
        \* the lists of the other wallets are untouched
        /\ \A v \in Wallets :
               walletKey(v) # walletKey(w) =>
                   ParseItem(got.storage, walletKey(v))
                       = ParseItem(localStorage, walletKey(v))
        \* a repeated call, of this or another wallet, changes nothing
        /\ GetStoredDocuments(got.storage, w) = got
        /\ \A v \in Wallets :
               GetStoredDocuments(got.storage, v).storage = got.storage

\* C29: a getStoredDocuments call of a wallet merges every document under the
\* legacy key into that wallet's list, the legacy entries the wallet did not
\* have first and the wallet's own entries kept after them, no hash twice; it
\* removes the legacy key, so that the migration is done once and a repeated
\* call changes nothing.
C29_MigrationOnce == \A w \in Wallets : C29_Holds(w)

\* A migration has happened: the legacy key is gone and a wallet's list holds
\* a manual entry, which only the legacy list can have held, before a signed
\* entry that only the wallet's own list can have held.
C29_Witness ==
    /\ ~MapHas(localStorage, LEGACY_KEY)
    /\ \E w \in Wallets :
           ParseItem(localStorage, walletKey(w))
               = <<ManualDocument("0x0b"), SignedDocument("0xb")>>

\* ---- C30 ------------------------------------------------------------------
\* C30: the pending state of SignTab ends in one way only: whenever
\* pendingTxId is cleared, txId is set to the id that was pending.
C30_PendingEndsInSuccess ==
    [][(signTab.pendingTxId # "" /\ signTab'.pendingTxId = "")
           => signTab'.txId = signTab.pendingTxId]_vars

\* C30, last part: once the pending state has ended, the timer of that
\* transaction does not act any more.
C30_TimerStopped ==
    [][signTab.pendingTxId = ""
           => ~(pollEffect.timeout /\ ~pollEffect.cancelled
                /\ ~pollEffect'.timeout /\ ~pollEffect'.cancelled)]_vars

\* The timer and React's effect runs are not postponed for ever.
SpecSignFair ==
    SpecSign /\ WF_vars(PollTimeout) /\ WF_vars(RunPollEffect)

\* C30, as liveness: a pending transaction id is eventually shown as txId.
C30_PendingEnds ==
    \A id \in TxIds : (signTab.pendingTxId = id) ~> (signTab.txId = id)

\* ---- C32 ------------------------------------------------------------------
\* A handleSign invocation of the mounted SignTab is between its start and
\* its end.
SignRunning == signCall.running /\ signCall.mounted

\* C32: at most one sign submission of a SignTab is in flight: a running
\* handleSign and a transaction pending confirmation never coexist, either of
\* them keeps the Sign Document button disabled, and handleSign starts only
\* when neither is there.
C32_OneSubmissionInFlight ==
    /\ ~(SignRunning /\ signTab.pendingTxId # "")
    /\ SignRunning => signTab.signing
    /\ (SignRunning \/ signTab.pendingTxId # "") => SignDisabled(signTab)

C32_StartsOnlyWhenIdle ==
    [][(~signTab.signing /\ signTab'.signing)
           => ~SignRunning /\ signTab.pendingTxId = ""]_vars

\* A transaction is pending while a hashed file is selected: only the pending
\* id keeps the button disabled.
C32_Witness ==
    /\ tab = "sign" /\ signTab.pendingTxId # ""
    /\ signTab.hashHex # "" /\ ~signTab.signing

\* ---- C33 ------------------------------------------------------------------
\* The entries of the local list that carry transaction id id.
EntriesOfTx(id) ==
    LET list == GetStoredDocumentsGlobal(localStorage)
    IN  {i \in DOMAIN list : list[i].txId = id}

\* C33: whatever poll responses, timeout and effect cleanup do and in
\* whatever order, the local list holds at most one entry for a submitted
\* transaction, every entry carries the id of a submitted transaction, and
\* the entry of the transaction whose effect is alive is the document that
\* effect holds.
C33_AddedAtMostOnce ==
    LET list == GetStoredDocumentsGlobal(localStorage)
    IN  /\ \A id \in TxIds : Cardinality(EntriesOfTx(id)) <= 1
        /\ \A i \in DOMAIN list : list[i].txId \in submitted
        /\ ~pollEffect.cancelled =>
               \A i \in EntriesOfTx(pollEffect.txId) :
                   list[i].hash = pollEffect.hashHex

\* The timeout of a mined transaction has fired and confirmed it, the cleanup
\* has not run yet and a poll response is still to come.
C33_Witness ==
    /\ ~pollEffect.cancelled /\ ~pollEffect.timeout
    /\ pollEffect.txId \in mined /\ pollsInFlight > 0
    /\ signTab.pendingTxId = ""
    /\ EntriesOfTx(pollEffect.txId) # {}

\* ---- C34 ------------------------------------------------------------------
\* C34: in the success state the file and the hash that are shown, and that
\* the certificate prints next to txId, are the file and the hash that the
\* transaction txId registers.
C34_SuccessPairsFileAndTx ==
    signTab.txId # "" =>
        /\ signTab.hashHex = txHash[signTab.txId]
        /\ signTab.file # NoFile /\ HashHexOf(signTab.file) = txHash[signTab.txId]

\* C34, for the local list: every entry pairs a transaction id with the hash
\* and the file that the transaction registers.
C34_ListPairsFileAndTx ==
    LET list == GetStoredDocumentsGlobal(localStorage)
    IN  \A i \in DOMAIN list :
            /\ list[i].hash = txHash[list[i].txId]
            /\ HashHexOf(list[i].filename) = list[i].hash

\* ---- C36 ------------------------------------------------------------------
\* C36: once every processAndVerify invocation has finished, the result that
\* is displayed is the one of the file selected last, and so is the hash that
\* is shown.
C36_ShowsLatestFile ==
    (verifyRuns = {} /\ verifyTab.file # NoFile) =>
        /\ lastVerify.file = verifyTab.file
        /\ verifyTab.hashHex # "" =>
               verifyTab.hashHex = HashHexOf(verifyTab.file)

\* ---- C31 ------------------------------------------------------------------
\* C31: once the poll has seen the revocation mined, the status of the document
\* is fetched again: a listed card that shows the spinner has a _verifyDocument
\* request in flight, so that it leaves loading when the request is answered.
C31_LoadingIsFetched ==
    \A i \in DOMAIN docs :
        ShowsSpinner(onChain, docs[i].hash) => docs[i].hash \in fetches

\* ---- C35 ------------------------------------------------------------------
\* C35: every handleRevoke invocation returns the revoking marker to null: when
\* no invocation is running and no revocation is pending, the marker is null.
C35_MarkerReturned ==
    (~revokeCall.running /\ pendingRevoke = NoPendingRevoke) => revoking = NoHash

====
